---- MODULE Spec2Model ----
(***************************************************************************)
(* The f2py command-line front end: numpy/f2py/f2pyarg.py (parser,          *)
(* process_args), numpy/f2py/service.py (checks, file classification,      *)
(* collaborator entry points) and numpy/f2py/utils.py (open_build_dir).    *)
(*                                                                         *)
(* Conventions.  A Python string that the code inspects character by       *)
(* character (a file name) is a sequence of one-character strings.         *)
(* An Optional[T] is a sequence of length 0 (None) or 1.  A pathlib path   *)
(* is a record [abs, parts].                                               *)
(***************************************************************************)
EXTENDS Integers, Sequences, FiniteSets, TLC

VARIABLES
    args,              \* the argparse.Namespace under construction / parsed
    rem,               \* tokens parse_known_args did not recognise
    pmode,             \* where argparse's scan stands: "opts", "star", "files", "rest"
    nparsed,           \* tokens consumed so far
    pc,                \* position in main() / process_args()
    dirs,              \* directories that exist (absolute paths)
    files,             \* regular files that exist: absolute path -> contents
    dirs0,             \* the directories at program start
    files0,            \* the regular files at program start
    segd,              \* locals of process_args set by steps 1 and 2
    build_dir,         \* Optional: the path open_build_dir yielded
    remove_build_dir,  \* open_build_dir's local flag
    module_name,       \* Optional: result of get_module_name
    sign_file,         \* Optional: result of get_signature_file
    c_wrapper,         \* Optional: result of generate_files
    log,               \* calls made and messages printed, in order
    calls,             \* the arguments the collaborators were called with
    outcome,           \* "running", "returned", "exit", "exception"
    status,            \* process exit status
    seg_in,            \* segregate_files harness: the input list
    seg_out,           \* segregate_files harness: Optional result
    seg_pc,            \* segregate_files harness: "call" or "ret"
    fn_in,             \* a parsing primitive run alone: the input consumed so far
    fn_out,            \* a parsing primitive run alone: the value it has built
    fn_pc              \* a parsing primitive run alone: "run" or "done"

mainvars == <<args, rem, pmode, nparsed, pc, dirs, files, dirs0, files0, segd,
              build_dir, remove_build_dir, module_name, sign_file, c_wrapper,
              log, calls, outcome, status>>
segvars == <<seg_in, seg_out, seg_pc>>
fnvars == <<fn_in, fn_out, fn_pc>>
vars == <<mainvars, segvars, fnvars>>

(***************************************************************************)
(* Bounds.                                                                 *)
(***************************************************************************)
MaxArgs == 3        \* command-line tokens per run
MaxFiles == 2       \* length of the list handed to segregate_files alone

None == <<>>
Some(x) == <<x>>

(***************************************************************************)
(* pathlib                                                                 *)
(***************************************************************************)
Path(abs, parts) == [abs |-> abs, parts |-> parts]
Cwd == Path(TRUE, <<"cwd">>)
\* Path.absolute()
Absolute(p) == IF p.abs THEN p ELSE Path(TRUE, Cwd.parts \o p.parts)
\* a / b
Join(a, b) == IF b.abs THEN b ELSE Path(a.abs, a.parts \o b.parts)
\* every proper and improper prefix of an absolute path below the root
Parents(p) == {Path(TRUE, SubSeq(p.parts, 1, n)) : n \in 1..Len(p.parts)}

\* index (1-based) of the last occurrence of character ch in s, 0 when absent
RECURSIVE RFind(_, _, _)
RFind(s, ch, i) ==
    IF i = 0 THEN 0
    ELSE IF s[i] = ch THEN i
    ELSE RFind(s, ch, i - 1)

\* PurePath(f).name: the text after the last "/"
PathName(f) ==
    LET k == RFind(f, "/", Len(f)) IN SubSeq(f, k + 1, Len(f))

\* the position of the suffix dot: name.rfind('.') with 0 < i < len(name) - 1
SuffixDot(f) ==
    LET name == PathName(f)
        i == RFind(name, ".", Len(name))   \* 1-based
    IN  IF 1 < i /\ i < Len(name) THEN i ELSE 0

\* PurePath(f).suffix
Suffix(f) ==
    LET name == PathName(f)
        i == SuffixDot(f)
    IN  IF i > 0 THEN SubSeq(name, i, Len(name)) ELSE <<>>

\* PurePath(f).stem
Stem(f) ==
    LET name == PathName(f)
        i == SuffixDot(f)
    IN  IF i > 0 THEN SubSeq(name, 1, i - 1) ELSE name

\* str.endswith
EndsWith(s, t) ==
    /\ Len(s) >= Len(t)
    /\ SubSeq(s, Len(s) - Len(t) + 1, Len(s)) = t

(***************************************************************************)
(* service.segregate_files                                                 *)
(***************************************************************************)
f77_ext == { <<".", "f">>, <<".", "f", "o", "r">>, <<".", "f", "t", "n">>,
             <<".", "f", "7", "7">> }
f90_ext == { <<".", "f", "9", "0">>, <<".", "f", "9", "5">>,
             <<".", "f", "0", "3">>, <<".", "f", "0", "8">> }
pyf_ext == { <<".", "p", "y", "f">>, <<".", "s", "r", "c">> }
out_ext == { <<".", "o">>, <<".", "o", "u", "t">>, <<".", "s", "o">>,
             <<".", "a">> }
DotSrc == <<".", "s", "r", "c">>
DotPyf == <<".", "p", "y", "f">>

NoBuckets == [f77 |-> <<>>, f90 |-> <<>>, pyf |-> <<>>, out |-> <<>>,
              other |-> <<>>]

\* the if/elif chain of the loop body: the bucket f is appended to, or
\* "none" when no branch appends
BucketOf(f) ==
    LET ext == Suffix(f) IN
    IF ext \in f77_ext THEN "f77"
    ELSE IF ext \in f90_ext THEN "f90"
    ELSE IF ext \in out_ext THEN "out"
    ELSE IF ext \in pyf_ext THEN
        IF (ext = DotSrc /\ EndsWith(Stem(f), DotPyf)) \/ ext # DotSrc
        THEN "pyf" ELSE "none"
    ELSE "other"

\* one iteration of the loop
SegregateOne(b, f) ==
    LET k == BucketOf(f) IN
    IF k = "none" THEN b ELSE [b EXCEPT ![k] = Append(@, f)]

RECURSIVE SegLoop(_, _, _)
SegLoop(fs, i, b) ==
    IF i > Len(fs) THEN b ELSE SegLoop(fs, i + 1, SegregateOne(b, fs[i]))

segregate_files(fs) == SegLoop(fs, 1, NoBuckets)

(***************************************************************************)
(* f2pyarg: tables of the parser                                           *)
(***************************************************************************)
\* npd_link (f2pyarg.py lines 38-55).  Two commas are missing in the source
\* list, so Python joins the adjacent literals into one name each.
npd_link ==
    { "atlas", "atlas_threads", "atlas_blas", "atlas_blas_threads",
      "lapack_atlas", "lapack_atlas_threads", "atlas_3_10",
      "atlas_3_10_threads", "atlas_3_10_blas",
      "atlas_3_10_blas_threadslapack_atlas_3_10",
      "lapack_atlas_3_10_threads", "flame", "mkl", "openblas",
      "openblas_lapack", "openblas_clapack", "blis", "lapack_mkl",
      "blas_mkl", "accelerate", "openblas64_", "openblas64__lapack",
      "openblas_ilp64", "openblas_ilp64_lapackx11", "fft_opt", "fftw",
      "fftw2", "fftw3", "dfftw", "sfftw", "fftw_threads", "dfftw_threads",
      "sfftw_threads", "djbfft", "blas", "lapack", "lapack_src", "blas_src",
      "numpy", "f2py", "Numeric", "numeric", "numarray", "numerix",
      "lapack_opt", "lapack_ilp64_opt", "lapack_ilp64_plain_opt",
      "lapack64__opt", "blas_opt", "blas_ilp64_opt", "blas_ilp64_plain_opt",
      "blas64__opt", "boost_python", "agg2", "wx", "gdk_pixbuf_xlib_2",
      "gdk-pixbuf-xlib-2.0", "gdk_pixbuf_2", "gdk-pixbuf-2.0", "gdk", "gdk_2",
      "gdk-2.0", "gdk_x11_2", "gdk-x11-2.0", "gtkp_x11_2", "gtk+-x11-2.0",
      "gtkp_2", "gtk+-2.0", "xft", "freetype2", "umfpack", "amd" }

\* The option strings registered for the NPDLinkHelper argument
\* (f2pyarg.py lines 620-651), each without its "--link-" prefix.
LinkOptionStrings ==
    { "atlas", "atlas_threads", "atlas_blas", "atlas_blas_threads",
      "lapack_atlas", "lapack_atlas_threads", "atlas_3_10",
      "atlas_3_10_threads", "atlas_3_10_blas",
      "atlas_3_10_blas_threadslapack_atlas_3_10",
      "lapack_atlas_3_10_threads", "flame", "mkl", "openblas",
      "openblas_lapack", "openblas_clapack", "blis", "lapack_mkl",
      "blas_mkl", "accelerate", "openblas64_", "openblas64__lapack",
      "openblas_ilp64", "openblas_ilp64_lapackx11", "fft_opt", "fftw",
      "fftw2", "fftw3", "dfftw", "sfftw", "fftw_threads", "dfftw_threads",
      "sfftw_threads", "djbfft", "blas", "lapack", "lapack_src", "blas_src",
      "numpy", "f2py", "Numeric", "numeric", "numarray", "numerix",
      "lapack_opt", "lapack_ilp64_opt", "lapack_ilp64_plain_opt",
      "lapack64__opt", "blas_opt", "blas_ilp64_opt", "blas_ilp64_plain_opt",
      "blas64__opt", "boost_python", "agg2", "wx", "gdk_pixbuf_xlib_2",
      "gdk-pixbuf-xlib-2.0", "gdk_pixbuf_2", "gdk-pixbuf-2.0", "gdk", "gdk_2",
      "gdk-2.0", "gdk_x11_2", "gdk-x11-2.0", "gtkp_x11_2", "gtk+-x11-2.0",
      "gtkp_2", "gtk+-2.0", "xft", "freetype2", "umfpack", "amd" }

\* class Backends(enum.Enum): the members' values
Backends == { "meson", "distutils" }
\* a Python str, and a member of the Backends enum
StrValue(s) == [kind |-> "str", value |-> s]
EnumMember(s) == [kind |-> "enum", value |-> s]
\* Python's ==: a plain Enum member never equals a str
PyEq(a, b) == a.kind = b.kind /\ a.value = b.value

\* check_dccomp's cchoices
cchoices == { "bcpp", "cygwin", "mingw32", "msvc", "unix" }
\* check_dccomp: TRUE when opt is returned, FALSE when RuntimeError is raised
check_dccomp(opt) == opt \in cchoices

\* check_dir: the directories that exist after the call.  mkdir(parents=True,
\* exist_ok=True) of a relative name is resolved against the working directory.
check_dir_dirs(dname, ds) ==
    IF dname # "" THEN ds \cup Parents(Absolute(Path(FALSE, <<dname>>))) ELSE ds
\* check_dir: the value returned
check_dir(dname) ==
    IF dname # "" THEN Some(Path(FALSE, <<dname>>)) ELSE None

\* NPDLinkHelper.__call__ for option string "--link-<outvar>":
\* TRUE when outvar is appended, FALSE when RuntimeError is raised
NPDLinkHelper(outvar) == outvar \in npd_link

(***************************************************************************)
(* f2pyarg.segregate_posn_args                                             *)
(***************************************************************************)
SkipTok == <<"s", "k", "i", "p", ":">>
OnlyTok == <<"o", "n", "l", "y", ":">>
ColonTok == <<":">>
funcs_keys == {SkipTok, OnlyTok}
FileMode == <<"f", "i", "l", "e">>

\* the loop body with a ':' taken as a sentinel in file mode too
PosnOne_ColonAlwaysSentinel(st, arg) ==
    IF arg \in funcs_keys THEN [st EXCEPT !.mode = arg]
    ELSE IF arg = ColonTok THEN [st EXCEPT !.mode = FileMode]
    ELSE IF st.mode = FileMode THEN [st EXCEPT !.files = Append(@, arg)]
    ELSE IF st.mode = SkipTok THEN [st EXCEPT !.skip = Append(@, arg)]
    ELSE [st EXCEPT !.only = Append(@, arg)]

\* the loop body with a ':' that is dropped but closes nothing
PosnOne_ColonKeepsMode(st, arg) ==
    IF arg \in funcs_keys THEN [st EXCEPT !.mode = arg]
    ELSE IF arg = ColonTok /\ st.mode \in funcs_keys THEN st
    ELSE IF st.mode = FileMode THEN [st EXCEPT !.files = Append(@, arg)]
    ELSE IF st.mode = SkipTok THEN [st EXCEPT !.skip = Append(@, arg)]
    ELSE [st EXCEPT !.only = Append(@, arg)]

\* the loop body with 'skip:' / 'only:' recognised in file mode only
PosnOne_NoImplicitClose(st, arg) ==
    IF arg \in funcs_keys /\ st.mode = FileMode THEN [st EXCEPT !.mode = arg]
    ELSE IF arg = ColonTok /\ st.mode \in funcs_keys
         THEN [st EXCEPT !.mode = FileMode]
    ELSE IF st.mode = FileMode THEN [st EXCEPT !.files = Append(@, arg)]
    ELSE IF st.mode = SkipTok THEN [st EXCEPT !.skip = Append(@, arg)]
    ELSE [st EXCEPT !.only = Append(@, arg)]

\* one iteration of the loop over the positional tokens
PosnOne(st, arg) ==
    IF arg \in funcs_keys THEN [st EXCEPT !.mode = arg]
    ELSE IF arg = ColonTok /\ st.mode \in funcs_keys
         THEN [st EXCEPT !.mode = FileMode]
    ELSE IF st.mode = FileMode THEN [st EXCEPT !.files = Append(@, arg)]
    ELSE IF st.mode = SkipTok THEN [st EXCEPT !.skip = Append(@, arg)]
    ELSE [st EXCEPT !.only = Append(@, arg)]

RECURSIVE PosnLoop(_, _, _)
PosnLoop(toks, i, st) ==
    IF i > Len(toks) THEN st ELSE PosnLoop(toks, i + 1, PosnOne(st, toks[i]))

segregate_posn_args(toks) ==
    PosnLoop(toks, 1, [mode |-> FileMode, files |-> <<>>, skip |-> <<>>,
                       only |-> <<>>])

(***************************************************************************)
(* service.get_f2py_modulename and f2pyarg.get_module_name                 *)
(***************************************************************************)
F_a_f == <<"a", ".", "f">>
F_b_f90 == <<"b", ".", "f", "9", "0">>
F_m_pyf == <<"m", ".", "p", "y", "f">>
F_u_pyf == <<"u", ".", "p", "y", "f">>
F_n_pyf == <<"n", ".", "p", "y", "f">>
F_e_pyf == <<"e", ".", "p", "y", "f">>

\* The text of the input files on disk, line by line.  A line is described by
\* what the two regular expressions see in it: pm = F2PY_MODULE_NAME_MATCH
\* matches, with group 'name'; user = F2PY_USER_MODULE_NAME_MATCH matches.
FileText(source) ==
    IF source = F_m_pyf
    THEN << [pm |-> FALSE, user |-> FALSE, name |-> ""],
            [pm |-> TRUE, user |-> FALSE, name |-> "m"] >>
    ELSE IF source = F_u_pyf
    THEN << [pm |-> TRUE, user |-> TRUE, name |-> "cb__user__routines"] >>
    ELSE IF source = F_n_pyf
    THEN << [pm |-> TRUE, user |-> TRUE, name |-> "cb__user__routines"],
            [pm |-> TRUE, user |-> FALSE, name |-> "n"],
            [pm |-> TRUE, user |-> FALSE, name |-> "n2"] >>
    ELSE << [pm |-> FALSE, user |-> FALSE, name |-> ""] >>

RECURSIVE ModuleNameLoop(_, _)
ModuleNameLoop(lines, i) ==
    IF i > Len(lines) THEN None
    ELSE IF lines[i].pm
         THEN IF lines[i].user THEN ModuleNameLoop(lines, i + 1)
              ELSE Some(lines[i].name)
         ELSE ModuleNameLoop(lines, i + 1)

get_f2py_modulename(source) == ModuleNameLoop(FileText(source), 1)

RECURSIVE FirstModuleName(_, _)
FirstModuleName(pyf_files, i) ==
    IF i > Len(pyf_files) THEN Some("unititled")
    ELSE IF get_f2py_modulename(pyf_files[i]) # None
         THEN get_f2py_modulename(pyf_files[i])
         ELSE FirstModuleName(pyf_files, i + 1)

\* get_module_name with the scan of the signature files tried first
get_module_name_ScanFirst(a, pyf_files) ==
    IF a.c THEN FirstModuleName(pyf_files, 1)
    ELSE IF a.module # None THEN a.module
    ELSE None

get_module_name(a, pyf_files) ==
    IF a.module # None THEN a.module
    ELSE IF a.c THEN FirstModuleName(pyf_files, 1)
    ELSE None

(***************************************************************************)
(* The command line                                                        *)
(***************************************************************************)
\* A token: an option with the value argparse hands to it, or (opt = "") a
\* positional word called name.
Tok(opt, val, name) == [opt |-> opt, val |-> val, name |-> name]

FlagTokens == { Tok(o, "", <<>>) : o \in {"--help", "-v", "-c", "-o", "--debug"} }
F77FlagsTokens == { Tok("--f77flags", "-O2", <<>>) }
BuildDirTokens == { Tok("-b", d, <<>>) : d \in {"", "bd"} }
HintTokens == { Tok("-h", "sig.pyf", <<>>) }
BackendTokens == { Tok("--backend", v, <<>>) : v \in {"meson", "distutils", "bogus"} }
CompilerTokens == { Tok("--compiler", v, <<>>) : v \in {"unix", "bogus"} }
LinkTokens == { Tok("--link-", v, <<>>) : v \in {"lapack", "bogus"} }
PositionalTokens == { Tok("", "", n) : n \in {F_a_f, F_b_f90, F_m_pyf} }
OptionTokens == FlagTokens \cup F77FlagsTokens \cup BuildDirTokens \cup HintTokens \cup BackendTokens
                    \cup CompilerTokens \cup LinkTokens
Tokens == OptionTokens \cup PositionalTokens

\* tempfile.mkdtemp(): a directory that did not exist before
TmpDir == Path(TRUE, <<"tmp", "tmpdir">>)
BdDir == Path(TRUE, <<"cwd", "bd">>)
BaseDirs == {Cwd, Path(TRUE, <<"tmp">>)}

\* parser defaults (the add_argument calls of f2pyarg.py)
DefaultArgs ==
    [ help |-> FALSE, version |-> FALSE, c |-> FALSE,
      overwrite_signature |-> FALSE, build_dir |-> None,
      hint_signature |-> None, module |-> None,
      backend |-> StrValue("distutils"), compiler |-> None,
      link_resource |-> <<>>, files |-> <<>>, otherfiles |-> <<>>,
      fcompiler |-> None, help_fcompiler |-> FALSE, f77exec |-> None,
      f90exec |-> None, f77flags |-> None, f90flags |-> None, arch |-> None,
      opt |-> None, noarch |-> FALSE, debug |-> FALSE, quiet |-> FALSE ]

NoSegd == [files |-> <<>>, skip |-> <<>>, only |-> <<>>, b |-> NoBuckets]

\* no collaborator has been called yet
NoCalls ==
    [settings |-> <<>>, generate |-> None, backend |-> None, dist |-> None,
     fc_flags |-> None]

MainInit ==
    /\ args = DefaultArgs
    /\ rem = <<>>
    /\ pmode = "opts"
    /\ nparsed = 0
    /\ pc = "parse"
    /\ \E bd \in BOOLEAN, f1 \in BOOLEAN, f2 \in BOOLEAN :
        /\ (f2 => bd)
        /\ dirs0 = BaseDirs \cup (IF bd THEN {BdDir} ELSE {})
        /\ files0 = [ q \in (IF f1 THEN {Join(Cwd, Path(FALSE, <<"sig.pyf">>))} ELSE {})
                          \cup (IF f2 THEN {Join(BdDir, Path(FALSE, <<"sig.pyf">>))} ELSE {})
                      |-> "old" ]
    /\ dirs = dirs0
    /\ files = files0
    /\ segd = NoSegd
    /\ build_dir = None
    /\ remove_build_dir = FALSE
    /\ module_name = None
    /\ sign_file = None
    /\ c_wrapper = None
    /\ log = <<>>
    /\ calls = NoCalls
    /\ outcome = "running"
    /\ status = 0

SegIdle ==
    /\ seg_in = <<>>
    /\ seg_out = None
    /\ seg_pc = "idle"

FnIdle ==
    /\ fn_in = <<>>
    /\ fn_out = None
    /\ fn_pc = "idle"

Init == MainInit /\ SegIdle /\ FnIdle

\* getattr(namespace, dest) or []
FirstOrEmpty(o) == IF o = None THEN <<>> ELSE o[1]

(***************************************************************************)
(* parse_known_args: one step per token, left to right                     *)
(***************************************************************************)
\* the run ends here: by a raised exception, or by SystemExit(st)
Terminate(how, st) ==
    /\ pc' = "done"
    /\ outcome' = how
    /\ status' = st

ProcVarsUnchanged ==
    UNCHANGED <<segd, build_dir, remove_build_dir, module_name, sign_file,
                c_wrapper, calls, dirs0, files0, segvars, fnvars>>

\* an option is looked at as an option only until the first run of
\* positional words has been consumed
OptionPosition == pc = "parse" /\ nparsed < MaxArgs /\ pmode \in {"opts", "star"}

\* store_true options
ParseFlag ==
    /\ OptionPosition
    /\ \E tok \in FlagTokens :
        args' = IF tok.opt = "--help" THEN [args EXCEPT !.help = TRUE]
                ELSE IF tok.opt = "-v" THEN [args EXCEPT !.version = TRUE]
                ELSE IF tok.opt = "-c" THEN [args EXCEPT !.c = TRUE]
                ELSE IF tok.opt = "--debug" THEN [args EXCEPT !.debug = TRUE]
                ELSE [args EXCEPT !.overwrite_signature = TRUE]
    /\ pmode' = "opts"
    /\ nparsed' = nparsed + 1
    /\ UNCHANGED <<rem, pc, dirs, files, log, outcome, status>>
    /\ ProcVarsUnchanged

\* ParseStringFlags.__call__, lines 215-219: every value is split on ' ' and
\* the list of its words is added to the items as one element
ParseStringFlags(items, value) == Some(FirstOrEmpty(items) \o << <<value>> >>)

\* --f77flags=<flags>, action=ParseStringFlags (a value without a blank)
ParseF77Flags ==
    /\ OptionPosition
    /\ \E tok \in F77FlagsTokens :
        args' = [args EXCEPT !.f77flags = ParseStringFlags(@, tok.val)]
    /\ pmode' = "opts"
    /\ nparsed' = nparsed + 1
    /\ UNCHANGED <<rem, pc, dirs, files, log, outcome, status>>
    /\ ProcVarsUnchanged

\* -b/--build-dir <dirname>, type=check_dir, nargs=1
ParseBuildDir ==
    /\ OptionPosition
    /\ \E tok \in BuildDirTokens :
        /\ dirs' = check_dir_dirs(tok.val, dirs)
        /\ args' = [args EXCEPT !.build_dir = Some(check_dir(tok.val))]
    /\ pmode' = "opts"
    /\ nparsed' = nparsed + 1
    /\ UNCHANGED <<rem, pc, files, log, outcome, status>>
    /\ ProcVarsUnchanged

\* -h/--hint-signature <filename>, type=pathlib.Path, nargs=1
ParseHint ==
    /\ OptionPosition
    /\ \E tok \in HintTokens :
        args' = [args EXCEPT !.hint_signature = Some(Path(FALSE, <<tok.val>>))]
    /\ pmode' = "opts"
    /\ nparsed' = nparsed + 1
    /\ UNCHANGED <<rem, pc, dirs, files, log, outcome, status>>
    /\ ProcVarsUnchanged

\* --backend <value>: argparse checks the value against the choices EnumAction
\* registered (parser.error, status 2), then EnumAction.__call__ stores the
\* enum member
ParseBackend ==
    /\ OptionPosition
    /\ \E tok \in BackendTokens :
        IF tok.val \in Backends
        THEN /\ args' = [args EXCEPT !.backend = EnumMember(tok.val)]
             /\ pmode' = "opts"
             /\ UNCHANGED <<pc, outcome, status, log>>
        ELSE /\ Terminate("exit", 2)
             /\ log' = Append(log, "config_error")
             /\ UNCHANGED <<args, pmode>>
    /\ nparsed' = nparsed + 1
    /\ UNCHANGED <<rem, dirs, files>>
    /\ ProcVarsUnchanged

\* --compiler <value>, type=check_dccomp, nargs=1
ParseCompiler ==
    /\ OptionPosition
    /\ \E tok \in CompilerTokens :
        IF check_dccomp(tok.val)
        THEN /\ args' = [args EXCEPT !.compiler = Some(tok.val)]
             /\ pmode' = "opts"
             /\ UNCHANGED <<pc, outcome, status, log>>
        ELSE /\ Terminate("exception", 1)
             /\ log' = Append(log, "config_error")
             /\ UNCHANGED <<args, pmode>>
    /\ nparsed' = nparsed + 1
    /\ UNCHANGED <<rem, dirs, files>>
    /\ ProcVarsUnchanged

\* --link-<resource>: a registered option string runs NPDLinkHelper (nargs="*");
\* any other one is an unknown option, which parse_known_args returns in rem
ParseLink ==
    /\ OptionPosition
    /\ \E tok \in LinkTokens :
        IF tok.val \in LinkOptionStrings
        THEN IF NPDLinkHelper(tok.val)
             THEN /\ args' = [args EXCEPT !.link_resource = Append(@, tok.val)]
                  /\ pmode' = "star"
                  /\ UNCHANGED <<rem, pc, outcome, status, log>>
             ELSE /\ Terminate("exception", 1)
                  /\ log' = Append(log, "config_error")
                  /\ UNCHANGED <<args, rem, pmode>>
        ELSE /\ rem' = Append(rem, tok)
             /\ pmode' = "opts"
             /\ UNCHANGED <<args, pc, outcome, status, log>>
    /\ nparsed' = nparsed + 1
    /\ UNCHANGED <<dirs, files>>
    /\ ProcVarsUnchanged

\* a positional word: a value of the nargs="*" option it follows, else one of
\* the "Fortran Files"
ParsePositional ==
    /\ pc = "parse" /\ nparsed < MaxArgs /\ pmode \in {"opts", "star", "files"}
    /\ \E tok \in PositionalTokens :
        IF pmode = "star"
        THEN UNCHANGED <<args, pmode>>
        ELSE /\ args' = [args EXCEPT !.files = Append(@, tok.name)]
             /\ pmode' = "files"
    /\ nparsed' = nparsed + 1
    /\ UNCHANGED <<rem, pc, dirs, files, log, outcome, status>>
    /\ ProcVarsUnchanged

\* after the first run of positional words everything left on the command
\* line is taken by 'otherfiles' (nargs=argparse.REMAINDER)
ParseRemainder ==
    /\ pc = "parse" /\ nparsed < MaxArgs
    /\ \E tok \in Tokens :
        /\ \/ pmode = "rest"
           \/ pmode = "files" /\ tok.opt # ""
        /\ args' = [args EXCEPT !.otherfiles = Append(@, tok)]
    /\ pmode' = "rest"
    /\ nparsed' = nparsed + 1
    /\ UNCHANGED <<rem, pc, dirs, files, log, outcome, status>>
    /\ ProcVarsUnchanged

\* parse_known_args returns; main calls process_args
ParseDone ==
    /\ pc = "parse"
    /\ pc' = "process"
    /\ UNCHANGED <<args, rem, pmode, nparsed, dirs, files, log, outcome, status>>
    /\ ProcVarsUnchanged

(***************************************************************************)
(* utils.open_build_dir, a generator wrapped by contextlib.contextmanager  *)
(***************************************************************************)
\* lines 26-27: build_dir[0] if build_dir else None
FirstOrNone(lst) == IF lst # <<>> THEN lst[1] ELSE None

\* the flag set for every compiling run, also when -b names the directory
open_build_dir_remove_WheneverCompile(bd, compile) == compile

\* lines 25-35: the value of remove_build_dir at the yield
open_build_dir_remove(bd, compile) == bd = None /\ compile

\* lines 28-35: the path yielded
open_build_dir_path(bd, compile) ==
    IF bd = None
    THEN IF compile THEN TmpDir ELSE Cwd
    ELSE Absolute(bd[1])

\* Lines 36-37.  The with statement ends by resuming the generator after the
\* yield when the body completed, and by throwing the body's exception
\* (SystemExit included) into the generator at the yield otherwise; the yield
\* stands in no try/finally, so line 37 runs in the first case only.
CleanupRuns(how) == how = "returned"

IsUnder(x, p) ==
    /\ Len(x.parts) >= Len(p.parts)
    /\ SubSeq(x.parts, 1, Len(p.parts)) = p.parts

\* shutil.rmtree(p)
RmTreeDirs(p, ds) == {d \in ds : ~IsUnder(d, p)}
RmTreeFiles(p, fl) == [q \in {x \in DOMAIN fl : ~IsUnder(x, p)} |-> fl[q]]

\* the with block of process_args is left: how = "returned" (the body
\* completed), "exception" or "exit"; lg and fl are the log and the files as
\* the body leaves them
LeaveBuildDir(how, st, lg, fl) ==
    /\ Terminate(how, st)
    /\ IF CleanupRuns(how) /\ remove_build_dir
       THEN /\ dirs' = RmTreeDirs(build_dir[1], dirs)
            /\ files' = RmTreeFiles(build_dir[1], fl)
            /\ log' = Append(lg, "rmtree")
       ELSE /\ dirs' = dirs
            /\ files' = fl
            /\ log' = lg

(***************************************************************************)
(* f2pyarg.process_args                                                    *)
(***************************************************************************)
ParseVarsUnchanged ==
    UNCHANGED <<args, rem, pmode, nparsed, dirs0, files0, segvars, fnvars>>

\* parser.exit() without arguments: argparse's default status
ParserExitStatus == 0

\* the two tests in the opposite order
HelpOrVersion_VersionFirst(a) ==
    IF a.version THEN "outmess_version"
    ELSE IF a.help THEN "print_help"
    ELSE "none"

\* lines 769-774: what is printed before parser.exit(), "none" when the
\* run goes on
HelpOrVersion(a) ==
    IF a.help THEN "print_help"
    ELSE IF a.version THEN "outmess_version"
    ELSE "none"

\* lines 769-774
CheckHelpVersion ==
    /\ pc = "process"
    /\ IF HelpOrVersion(args) # "none"
       THEN /\ log' = Append(log, HelpOrVersion(args))
            /\ Terminate("exit", ParserExitStatus)
       ELSE /\ pc' = "segregate"
            /\ UNCHANGED <<log, outcome, status>>
    /\ UNCHANGED <<dirs, files, segd, build_dir, remove_build_dir, module_name,
                   sign_file, c_wrapper, calls>>
    /\ ParseVarsUnchanged

\* lines 778-781: steps 1 and 2
SegregateInputs ==
    /\ pc = "segregate"
    /\ LET r == segregate_posn_args(args.files) IN
        segd' = [files |-> r.files, skip |-> r.skip, only |-> r.only,
                 b |-> segregate_files(r.files)]
    /\ pc' = "open"
    /\ UNCHANGED <<dirs, files, build_dir, remove_build_dir, module_name,
                   sign_file, c_wrapper, log, calls, outcome, status>>
    /\ ParseVarsUnchanged

\* line 784: the with statement is entered (open_build_dir runs to its yield)
OpenBuildDir ==
    /\ pc = "open"
    /\ LET bd == FirstOrNone(args.build_dir)
           rm == open_build_dir_remove(bd, args.c)
           path == open_build_dir_path(bd, args.c)
       IN  /\ build_dir' = Some(path)
           /\ remove_build_dir' = rm
           /\ IF bd = None /\ args.c
              THEN /\ dirs' = dirs \cup {TmpDir}
                   /\ log' = Append(log, "mkdtemp")
              ELSE UNCHANGED <<dirs, log>>
    /\ pc' = "modname"
    /\ UNCHANGED <<files, segd, module_name, sign_file, c_wrapper, calls,
                   outcome, status>>
    /\ ParseVarsUnchanged

\* line 786
GetModuleName ==
    /\ pc = "modname"
    /\ module_name' = get_module_name(args, segd.b.pyf)
    /\ pc' = "sigfile"
    /\ UNCHANGED <<dirs, files, segd, build_dir, remove_build_dir, sign_file,
                   c_wrapper, log, calls, outcome, status>>
    /\ ParseVarsUnchanged

\* the guard without its test of --overwrite-signature
SignatureBlocked_IgnoresOverwrite(a, bdir, fl) ==
    /\ a.hint_signature # None
    /\ Join(bdir, a.hint_signature[1]) \in DOMAIN fl

\* get_signature_file, line 746: the target exists and may not be overwritten
SignatureBlocked(a, bdir, fl) ==
    /\ a.hint_signature # None
    /\ Join(bdir, a.hint_signature[1]) \in DOMAIN fl
    /\ ~a.overwrite_signature

\* line 787: get_signature_file (lines 742-749)
GetSignatureFile ==
    /\ pc = "sigfile"
    /\ IF SignatureBlocked(args, build_dir[1], files)
       THEN /\ LeaveBuildDir("exit", ParserExitStatus,
                             Append(log, "signature_exists"), files)
            /\ UNCHANGED sign_file
       ELSE /\ sign_file' = IF args.hint_signature # None
                            THEN Some(Join(build_dir[1], args.hint_signature[1]))
                            ELSE None
            /\ pc' = "settings"
            /\ UNCHANGED <<dirs, files, log, outcome, status>>
    /\ UNCHANGED <<segd, build_dir, remove_build_dir, module_name, c_wrapper,
                   calls>>
    /\ ParseVarsUnchanged

\* line 670: the '-include<header>' words among the unrecognised tokens
get_additional_headers(r) == SelectSeq(r, LAMBDA t : t.opt = "-include")

\* lines 801-832: the four dictionaries, each with the entries that depend
\* on the run; name stands for the identity of the dictionary
rules_setts(mn, bd) ==
    [name |-> "rules_setts", module |-> mn, buildpath |-> bd]
crackfortran_setts(mn, skip, only) ==
    [name |-> "crackfortran_setts", module |-> mn, skipfuncs |-> skip,
     onlyfuncs |-> only]
capi_maps_setts(headers) == [name |-> "capi_maps_setts", headers |-> headers]
auxfuncs_setts == [name |-> "auxfuncs_setts"]

\* the setters called with the bundles handed over crosswise
wrapper_settings_Crossed(r, c, m, a) ==
    << [fn |-> "_set_rules", arg |-> c],
       [fn |-> "_set_crackfortran", arg |-> r],
       [fn |-> "_set_capi_maps", arg |-> m],
       [fn |-> "_set_auxfuncs", arg |-> a] >>

\* service.wrapper_settings, lines 260-271: the setter calls it makes
wrapper_settings(r, c, m, a) ==
    << [fn |-> "_set_rules", arg |-> r],
       [fn |-> "_set_crackfortran", arg |-> c],
       [fn |-> "_set_capi_maps", arg |-> m],
       [fn |-> "_set_auxfuncs", arg |-> a] >>

\* lines 792-836: the four bundles are built and wrapper_settings is called
WrapperSettings ==
    /\ pc = "settings"
    /\ log' = Append(log, "wrapper_settings")
    /\ calls' = [calls EXCEPT !.settings = @ \o
                    wrapper_settings(rules_setts(module_name, build_dir[1]),
                                     crackfortran_setts(module_name, segd.skip,
                                                        segd.only),
                                     capi_maps_setts(get_additional_headers(rem)),
                                     auxfuncs_setts)]
    /\ pc' = "dispatch"
    /\ UNCHANGED <<dirs, files, segd, build_dir, remove_build_dir, module_name,
                   sign_file, c_wrapper, outcome, status>>
    /\ ParseVarsUnchanged

\* line 840: args.c and args.backend == Backends.Distutils.value
DistutilsBranch(a) == a.c /\ PyEq(a.backend, StrValue("distutils"))

\* line 853: 'sources' of ext_args
DistSources(b) == b.pyf \o b.f77 \o b.f90

\* one word of a flag list: flag alone, or flag=value
Word(flag, value) == [flag |-> flag, value |-> value]

\* f2pyarg.get_fortran_library_flags, lines 700-706
get_fortran_library_flags(a) ==
    (IF a.fcompiler # None THEN <<Word("--fcompiler", a.fcompiler[1])>> ELSE <<>>)
    \o (IF a.compiler # None THEN <<Word("--compiler", a.compiler[1])>> ELSE <<>>)

\* f2pyarg.get_fortran_compiler_flags, lines 708-729: what the call does
\* (raised) and the value it returns.  " ".join() of a list whose elements
\* are lists is a TypeError; lines 545-550 register --noopt under the name
\* '_summary_\n    --noopt', so the Namespace has no attribute noopt; the
\* function ends without a return statement, so the list it has built is
\* dropped.
get_fortran_compiler_flags(a) ==
    IF \E d \in {"f77flags", "f90flags", "arch", "opt"} :
           a[d] # None /\ a[d][1] # <<>>
    THEN [raised |-> "TypeError", value |-> None]
    ELSE IF "noopt" \notin DOMAIN a
    THEN [raised |-> "AttributeError", value |-> None]
    ELSE [raised |-> "", value |-> None]

\* service.compile_dist, lines 299-308: script_args handed to setup();
\* fc_flags is an Optional list, None being what a function without return
\* gives
f2py_build_flags(quiet_build, fc_flags, flib_flags) ==
    (IF quiet_build THEN <<Word("--quiet", "")>> ELSE <<Word("--verbose", "")>>)
    \o << Word("build", ""), Word("--build-temp", ""), Word("str(build_dir)", ""),
          Word("--build-base", ""), Word("str(build_dir)", ""),
          Word("--build-platlib", ""), Word(".", ""),
          Word("--disable-optimization", "") >>
    \o (IF fc_flags # None /\ fc_flags[1] # <<>>
        THEN <<Word("config_fc", "")>> \o fc_flags[1] ELSE <<>>)
    \o (IF flib_flags # <<>> THEN <<Word("build_ext", "")>> \o flib_flags ELSE <<>>)

\* lines 841-862: the flag lists are built (get_fortran_compiler_flags may
\* raise), then compile_dist is called; it returns or raises
CompileDist ==
    /\ pc = "dispatch"
    /\ DistutilsBranch(args)
    /\ LET fc == get_fortran_compiler_flags(args) IN
        IF fc.raised # ""
        THEN /\ calls' = [calls EXCEPT !.fc_flags = Some(fc)]
             /\ LeaveBuildDir("exception", 1, log, files)
        ELSE /\ calls' = [calls EXCEPT
                            !.fc_flags = Some(fc),
                            !.dist = Some([sources |-> DistSources(segd.b),
                                           build_dir |-> build_dir[1],
                                           script_args |->
                                               f2py_build_flags(args.quiet, fc.value,
                                                   get_fortran_library_flags(args))])]
             /\ \E ok \in BOOLEAN :
                 LeaveBuildDir(IF ok THEN "returned" ELSE "exception",
                               IF ok THEN 0 ELSE 1,
                               Append(log, "compile_dist"), files)
    /\ UNCHANGED <<segd, build_dir, remove_build_dir, module_name, sign_file,
                   c_wrapper>>
    /\ ParseVarsUnchanged

\* what _buildmodules may hand back as the list of wrappers
WrapperLists == { <<>>, <<"module.c">> }

\* truth value of generate_files' result: None and [] are false
Truthy(w) == w # None /\ w[1] # <<>>

\* generate_files without the return that follows _generate_signature
generate_files_result_NoEarlyReturn(sf, w) == Some(w)

\* service.generate_files, lines 281-292: None after the signature file was
\* written, else the wrappers
generate_files_result(sf, w) == IF sf # None THEN None ELSE Some(w)

\* open(sign_file, "w"); f.write(pyf)
WriteFile(fl, q, text) ==
    [x \in DOMAIN fl \cup {q} |-> IF x = q THEN text ELSE fl[x]]

\* the signature files handed over with the Fortran sources
GenerateSources_WithPyf(b) == b.pyf \o b.f77 \o b.f90

\* lines 865 and 868: f77_files + f90_files
GenerateSources(b) == b.f77 \o b.f90

\* lines 865-866: generate_files (service.py lines 273-292) raises, or
\* writes the signature file and returns None, or returns the wrappers
GenerateFiles ==
    /\ pc = "dispatch"
    /\ ~DistutilsBranch(args)
    /\ calls' = [calls EXCEPT !.generate =
                    Some([files |-> GenerateSources(segd.b),
                          module_name |-> module_name,
                          sign_file |-> sign_file])]
    /\ \E raises \in BOOLEAN, w \in WrapperLists :
        LET lg == Append(log, "generate_files")
            fl == IF sign_file # None
                  THEN WriteFile(files, sign_file[1], "new") ELSE files
            lg2 == IF sign_file # None THEN Append(lg, "write_signature") ELSE lg
            res == generate_files_result(sign_file, w)
        IN  IF raises
            THEN /\ LeaveBuildDir("exception", 1, lg, files)
                 /\ UNCHANGED c_wrapper
            ELSE /\ c_wrapper' = res
                 /\ IF Truthy(res) /\ args.c
                    THEN /\ pc' = "backend"
                         /\ log' = lg2
                         /\ files' = fl
                         /\ UNCHANGED <<dirs, outcome, status>>
                    ELSE LeaveBuildDir("returned", 0, lg2, fl)
    /\ UNCHANGED <<segd, build_dir, remove_build_dir, module_name, sign_file>>
    /\ ParseVarsUnchanged

\* lines 867-868: args.backend.value (an AttributeError on a str), then the
\* backend is built and its compile is called; it returns or raises
BackendCompile ==
    /\ pc = "backend"
    /\ IF args.backend.kind # "enum"
       THEN /\ LeaveBuildDir("exception", 1, log, files)
            /\ UNCHANGED calls
       ELSE /\ \E ok \in BOOLEAN :
                LeaveBuildDir(IF ok THEN "returned" ELSE "exception",
                              IF ok THEN 0 ELSE 1,
                              Append(log, "backend_compile"), files)
            /\ calls' = [calls EXCEPT !.backend =
                            Some([sources |-> GenerateSources(segd.b),
                                  wrappers |-> c_wrapper[1],
                                  build_dir |-> build_dir[1]])]
    /\ UNCHANGED <<segd, build_dir, remove_build_dir, module_name, sign_file,
                   c_wrapper>>
    /\ ParseVarsUnchanged

Next ==
    \/ ParseFlag
    \/ ParseF77Flags
    \/ ParseBuildDir
    \/ ParseHint
    \/ ParseBackend
    \/ ParseCompiler
    \/ ParseLink
    \/ ParsePositional
    \/ ParseRemainder
    \/ ParseDone
    \/ CheckHelpVersion
    \/ SegregateInputs
    \/ OpenBuildDir
    \/ GetModuleName
    \/ GetSignatureFile
    \/ WrapperSettings
    \/ CompileDist
    \/ GenerateFiles
    \/ BackendCompile

Spec == Init /\ [][Next]_vars

(***************************************************************************)
(* segregate_files alone, on lists of file names of every kind             *)
(***************************************************************************)
SegNames ==
    { <<"a", ".", "f">>,
      <<"a", ".", "f", "o", "r">>,
      <<"b", ".", "f", "9", "0">>,
      <<"b", ".", "F", "9", "0">>,
      <<"c", ".", "o">>,
      <<"d", ".", "p", "y", "f">>,
      <<"e", ".", "p", "y", "f", ".", "s", "r", "c">>,
      <<"b", "a", "r", ".", "s", "r", "c">>,
      <<"h", ".", "t", "x", "t">>,
      <<"n", "o", "e", "x", "t">>,
      <<".", "f">>,
      <<"x", ".", "f", "/", "y">> }

SegLists == UNION { [1..n -> SegNames] : n \in 0..MaxFiles }

MainIdle ==
    /\ args = DefaultArgs
    /\ rem = <<>>
    /\ pmode = "opts"
    /\ nparsed = 0
    /\ pc = "idle"
    /\ dirs0 = BaseDirs
    /\ files0 = << >>
    /\ dirs = dirs0
    /\ files = files0
    /\ segd = NoSegd
    /\ build_dir = None
    /\ remove_build_dir = FALSE
    /\ module_name = None
    /\ sign_file = None
    /\ c_wrapper = None
    /\ log = <<>>
    /\ calls = NoCalls
    /\ outcome = "running"
    /\ status = 0

SegInit ==
    /\ MainIdle
    /\ FnIdle
    /\ seg_in \in SegLists
    /\ seg_out = None
    /\ seg_pc = "call"

SegCall ==
    /\ seg_pc = "call"
    /\ seg_out' = Some(segregate_files(seg_in))
    /\ seg_pc' = "ret"
    /\ UNCHANGED <<seg_in, mainvars, fnvars>>

SegNext == SegCall

SegSpec == SegInit /\ [][SegNext]_vars

(***************************************************************************)
(* Properties                                                              *)
(***************************************************************************)
Range(s) == {s[i] : i \in DOMAIN s}
Count(s, x) == Cardinality({i \in DOMAIN s : s[i] = x})
Happened(ev) == ev \in Range(log)

\* C1: when no build directory is given and -c is requested, the temporary
\* directory open_build_dir created is deleted exactly once on every way out
\* of the with block, so it no longer exists when the run has ended.
C1_TempDirRemovedOnEveryExit ==
    (pc = "done" /\ Happened("mkdtemp")) =>
        /\ TmpDir \notin dirs
        /\ Count(log, "rmtree") = 1

\* C2: the five buckets segregate_files returns hold, as a multiset, exactly
\* the files of its input.
C2_BucketsPartitionInput ==
    seg_pc = "ret" =>
        LET b == seg_out[1] IN
        \A f \in SegNames :
            Count(seg_in, f) = Count(b.f77, f) + Count(b.f90, f) + Count(b.pyf, f)
                                + Count(b.out, f) + Count(b.other, f)

\* the bucket the claim assigns to a file, by its final suffix
C3_ClaimedBucket(f) ==
    LET ext == Suffix(f) IN
    IF ext \in f77_ext THEN "f77"
    ELSE IF ext \in f90_ext THEN "f90"
    ELSE IF ext \in out_ext THEN "out"
    ELSE IF ext = DotPyf THEN "pyf"
    ELSE IF ext = DotSrc /\ EndsWith(Stem(f), DotPyf) THEN "pyf"
    ELSE "other"

C3_Select(fs, k) ==
    LET Keep(f) == C3_ClaimedBucket(f) = k IN SelectSeq(fs, Keep)

\* C3: each bucket holds, in input order, exactly the input files whose final
\* suffix the claim assigns to it; a '.src' file whose stem does not end in
\* '.pyf' goes to 'other'.
C3_BucketBySuffixInOrder ==
    seg_pc = "ret" =>
        LET b == seg_out[1] IN
        /\ b.f77 = C3_Select(seg_in, "f77")
        /\ b.f90 = C3_Select(seg_in, "f90")
        /\ b.pyf = C3_Select(seg_in, "pyf")
        /\ b.out = C3_Select(seg_in, "out")
        /\ b.other = C3_Select(seg_in, "other")

\* C4: with -c and the distutils backend, chosen by default or by
\* '--backend distutils', process_args calls compile_dist and takes no step of
\* the wrapper-generation branch.
C4_DistutilsTakesCompileDist ==
    (pc # "parse" /\ args.c /\ args.backend.value = "distutils") =>
        /\ ~Happened("generate_files")
        /\ ~Happened("backend_compile")
        /\ (pc = "done" /\ Happened("wrapper_settings")) => Happened("compile_dist")

BogusLinkGiven ==
    \E tok \in Range(rem) \cup Range(args.otherfiles) :
        tok.opt = "--link-" /\ tok.val \notin npd_link

\* C6: a '--link-<x>' with x outside the allow-list is fatal: the run aborts
\* before wrapper_settings, generation or compilation; it is never dropped
\* while the run goes on.
C6_BogusLinkIsFatal ==
    BogusLinkGiven =>
        /\ ~Happened("wrapper_settings")
        /\ ~Happened("generate_files")
        /\ ~Happened("compile_dist")
        /\ outcome # "returned"

\* C7: when the run aborts on a configuration error found while parsing, no
\* directory has been created, whatever the order of the flags.
C7_ConfigErrorBeforeSideEffects ==
    Happened("config_error") => (dirs = dirs0 /\ files = files0)

\* the signature target of the run exists at program start and -o is absent
C8_TargetProtected ==
    /\ build_dir # None
    /\ args.hint_signature # None
    /\ Join(build_dir[1], args.hint_signature[1]) \in DOMAIN files0
    /\ ~args.overwrite_signature

C8_PastGuard == build_dir # None /\ pc \notin {"modname", "sigfile"}

\* C8: a hint-signature target that exists, without -o, ends the run at the
\* guard with the conflict reported: nothing is propagated, generated,
\* compiled or written and the files are as they were.  With -o, or with no
\* such file, the run goes on to wrapper_settings.
C8_OverwriteGuard ==
    /\ (C8_PastGuard /\ C8_TargetProtected) =>
        /\ pc = "done" /\ outcome = "exit"
        /\ Happened("signature_exists")
        /\ ~Happened("wrapper_settings") /\ ~Happened("generate_files")
        /\ ~Happened("compile_dist") /\ ~Happened("backend_compile")
        /\ ~Happened("write_signature")
        /\ files = files0
    /\ (C8_PastGuard /\ ~C8_TargetProtected) =>
        /\ ~Happened("signature_exists")
        /\ pc = "settings" \/ Happened("wrapper_settings")
        /\ (args.hint_signature # None) =>
               sign_file = Some(Join(build_dir[1], args.hint_signature[1]))

C8_Witness ==
    /\ C8_PastGuard /\ C8_TargetProtected
    /\ Happened("signature_exists")
    /\ files = files0 /\ DOMAIN files # {}

\* C9: the run that stops at an existing signature file ends with a non-zero
\* status; help and version requests end with status 0.
C9_ExitStatus ==
    pc = "done" =>
        /\ Happened("signature_exists") => status # 0
        /\ (Happened("print_help") \/ Happened("outmess_version")) => status = 0

\* the directory named by the last -b, when it names one
C10_Supplied == FirstOrNone(args.build_dir) # None

MaxOcc == 3         \* occurrences of paired flags on one command line

\* Python's  sub in s  on two strings
StrIn(sub, s) ==
    \E i \in 0..(Len(s) - Len(sub)) : SubSeq(s, i + 1, i + Len(sub)) = sub

\* a BoolAction that stores True whatever variant was matched
BoolAction_AlwaysTrue(option_string) == TRUE

\* BoolAction.__call__, line 90: the value stored under dest
BoolAction(option_string) == ~StrIn(<<"n", "o">>, option_string)

\* the four add_argument calls with action=BoolAction: dest, default and
\* the two option strings
BoolFlags ==
    {       [dest |-> "lower", default |-> FALSE,
       on |-> <<"-", "-", "l", "o", "w", "e", "r">>,
       off |-> <<"-", "-", "n", "o", "-", "l", "o", "w", "e", "r">>],
      [dest |-> "latex_doc", default |-> FALSE,
       on |-> <<"-", "-", "l", "a", "t", "e", "x", "-", "d", "o", "c">>,
       off |-> <<"-", "-", "n", "o", "-", "l", "a", "t", "e", "x", "-", "d", "o", "c">>],
      [dest |-> "rest_doc", default |-> FALSE,
       on |-> <<"-", "-", "r", "e", "s", "t", "-", "d", "o", "c">>,
       off |-> <<"-", "-", "n", "o", "-", "r", "e", "s", "t", "-", "d", "o", "c">>],
      [dest |-> "wrap_functions", default |-> TRUE,
       on |-> <<"-", "-", "w", "r", "a", "p", "-", "f", "u", "n", "c", "t", "i", "o", "n", "s">>,
       off |-> <<"-", "-", "n", "o", "-", "w", "r", "a", "p", "-", "f", "u", "n", "c", "t", "i", "o", "n", "s">>] }

BoolDests == { f.dest : f \in BoolFlags }

\* the Namespace before any occurrence: every dest holds its default
BoolDefaults == [d \in BoolDests |-> (CHOOSE f \in BoolFlags : f.dest = d).default]

BoolInit ==
    /\ MainIdle
    /\ SegIdle
    /\ fn_in = <<>>
    /\ fn_out = BoolDefaults
    /\ fn_pc = "run"

\* argparse matches one more occurrence and calls the action with it
BoolCall ==
    /\ fn_pc = "run"
    /\ Len(fn_in) < MaxOcc
    /\ \E f \in BoolFlags : \E o \in {f.on, f.off} :
        /\ fn_in' = Append(fn_in, o)
        /\ fn_out' = [fn_out EXCEPT ![f.dest] = BoolAction(o)]
    /\ UNCHANGED <<fn_pc, mainvars, segvars>>

BoolNext == BoolCall

BoolSpec == BoolInit /\ [][BoolNext]_vars

\* the positions at which one of the two variants of f was given
C11_Occurrences(f) == { i \in DOMAIN fn_in : fn_in[i] \in {f.on, f.off} }

C11_Last(S) == CHOOSE i \in S : \A j \in S : j <= i

MaxMacros == 3      \* words given to -D on one command line

\* str.split(sep): the pieces between the occurrences of sep, all of them
RECURSIVE Split(_, _)
Split(s, sep) ==
    IF \E i \in DOMAIN s : s[i] = sep
    THEN LET i == CHOOSE k \in DOMAIN s :
                      s[k] = sep /\ \A j \in 1..(k - 1) : s[j] # sep
         IN  <<SubSeq(s, 1, i - 1)>> \o Split(SubSeq(s, i + 1, Len(s)), sep)
    ELSE <<s>>

\* lines 158-161: the tuple appended for one word
MacroTuple(value) ==
    IF StrIn(<<"=">>, value)
    THEN [name |-> Split(value, "=")[1], value |-> Some(Split(value, "=")[2])]
    ELSE [name |-> value, value |-> None]

\* ProcessMacros.__call__, lines 156-162: items after the words of values
ProcessMacros(items, values) ==
    items \o [i \in DOMAIN values |-> MacroTuple(values[i])]

MacroWords ==
    { <<"A">>,
      <<"A", "=", "b">>,
      <<"A", "=", "b", "=", "c">>,
      <<"A", "=">>,
      <<"=", "b">>,
      <<"A", "=", "=", "b">> }

MacroInit ==
    /\ MainIdle
    /\ SegIdle
    /\ fn_in = <<>>
    /\ fn_out = <<>>
    /\ fn_pc = "run"

\* one more -D occurrence with one word
MacroCall ==
    /\ fn_pc = "run"
    /\ Len(fn_in) < MaxMacros
    /\ \E w \in MacroWords :
        /\ fn_in' = Append(fn_in, w)
        /\ fn_out' = ProcessMacros(fn_out, <<w>>)
    /\ UNCHANGED <<fn_pc, mainvars, segvars>>

MacroNext == MacroCall

MacroSpec == MacroInit /\ [][MacroNext]_vars

\* the position of the first '=' of a word that has one
C12_FirstEq(w) == CHOOSE k \in DOMAIN w : w[k] = "=" /\ \A j \in 1..(k - 1) : w[j] # "="

\* C12: every word is split on its first '=' only ('A=b=c' gives
\* ('A', 'b=c')), a word without '=' gives (word, None), and the tuples
\* stand in the order in which the words were met.
C12_SplitOnFirstEquals ==
    fn_pc = "run" =>
        /\ Len(fn_out) = Len(fn_in)
        /\ \A i \in DOMAIN fn_in :
            LET w == fn_in[i] IN
            IF \E k \in DOMAIN w : w[k] = "="
            THEN /\ fn_out[i].name = SubSeq(w, 1, C12_FirstEq(w) - 1)
                 /\ fn_out[i].value = Some(SubSeq(w, C12_FirstEq(w) + 1, Len(w)))
            ELSE /\ fn_out[i].name = w
                 /\ fn_out[i].value = None

(***************************************************************************)
(* segregate_posn_args alone: the loop, one iteration per step             *)
(***************************************************************************)
MaxToks == 4        \* positional tokens handed to segregate_posn_args

PosnWords == {SkipTok, OnlyTok, ColonTok, <<"a">>, <<"b">>}

\* lines 754-756: mode and the three lists before the loop
PosnStart == [mode |-> FileMode, files |-> <<>>, skip |-> <<>>, only |-> <<>>]

\* fn_in: the tokens iterated over so far; fn_out: the locals before the
\* loop and after each iteration
PosnInit ==
    /\ MainIdle
    /\ SegIdle
    /\ fn_in = <<>>
    /\ fn_out = <<PosnStart>>
    /\ fn_pc = "run"

\* lines 757-765: one more iteration
PosnStep ==
    /\ fn_pc = "run"
    /\ Len(fn_in) < MaxToks
    /\ \E arg \in PosnWords :
        /\ fn_in' = Append(fn_in, arg)
        /\ fn_out' = Append(fn_out, PosnOne(fn_out[Len(fn_out)], arg))
    /\ UNCHANGED <<fn_pc, mainvars, segvars>>

PosnNext == PosnStep

PosnSpec == PosnInit /\ [][PosnNext]_vars

\* the locals after the last iteration made: what the function returns
PosnResult == fn_out[Len(fn_out)]

C13_Sentinels == funcs_keys \cup {ColonTok}

\* token i is a consumed sentinel: 'skip:' or 'only:' anywhere, or a ':'
\* with a 'skip:' / 'only:' before it and no ':' in between
C13_Consumed ==
    { i \in DOMAIN fn_in :
        \/ fn_in[i] \in funcs_keys
        \/ /\ fn_in[i] = ColonTok
           /\ \E j \in 1..(i - 1) :
                /\ fn_in[j] \in funcs_keys
                /\ \A k \in (j + 1)..(i - 1) : fn_in[k] # ColonTok }

RECURSIVE C13_IsSubseq(_, _)
C13_IsSubseq(a, b) ==
    IF a = <<>> THEN TRUE
    ELSE IF b = <<>> THEN FALSE
    ELSE IF a[1] = b[1] THEN C13_IsSubseq(Tail(a), Tail(b))
    ELSE C13_IsSubseq(a, Tail(b))

\* the number of tokens before the first 'skip:' / 'only:'
C13_Prefix ==
    IF \E i \in DOMAIN fn_in : fn_in[i] \in funcs_keys
    THEN (CHOOSE i \in DOMAIN fn_in :
            fn_in[i] \in funcs_keys /\ \A j \in 1..(i - 1) : fn_in[j] \notin funcs_keys) - 1
    ELSE Len(fn_in)

\* C13: segregate_posn_args returns for every token list; the tokens kept in
\* files, skip and only together with the consumed sentinels make up the
\* input length; each list keeps the input order; every token before the
\* first 'skip:' / 'only:' is in files.
C13_TokensConserved ==
    fn_pc = "run" =>
        LET r == PosnResult IN
        /\ Len(fn_out) = Len(fn_in) + 1
        /\ Len(r.files) + Len(r.skip) + Len(r.only) + Cardinality(C13_Consumed)
             = Len(fn_in)
        /\ C13_IsSubseq(r.files, fn_in)
        /\ C13_IsSubseq(r.skip, fn_in)
        /\ C13_IsSubseq(r.only, fn_in)
        /\ SubSeq(r.files, 1, C13_Prefix) = SubSeq(fn_in, 1, C13_Prefix)

\* 'b a skip: a' has been segregated: two files, one skipped name, one
\* sentinel consumed
C13_Witness ==
    /\ fn_pc = "run"
    /\ fn_in = << <<"b">>, <<"a">>, SkipTok, <<"a">> >>
    /\ PosnResult.files = << <<"b">>, <<"a">> >>
    /\ PosnResult.skip = << <<"a">> >>
    /\ PosnResult.only = <<>>

\* C14: a ':' met in skip or only mode switches the mode to file and is
\* stored nowhere; a ':' met in file mode is appended to files as any other
\* token and leaves the mode as it is.
C14_ColonByMode ==
    fn_pc = "run" =>
        \A i \in DOMAIN fn_in :
            LET before == fn_out[i]
                after == fn_out[i + 1]
            IN  fn_in[i] = ColonTok =>
                    IF before.mode \in funcs_keys
                    THEN /\ after.mode = FileMode
                         /\ after.files = before.files
                         /\ after.skip = before.skip
                         /\ after.only = before.only
                    ELSE /\ after.mode = before.mode
                         /\ after.files = Append(before.files, ColonTok)
                         /\ after.skip = before.skip
                         /\ after.only = before.only

\* ': skip: : b' has been segregated: the first ':' is a file, the second
\* one closed the skip list, so that b is a file again
C14_Witness ==
    /\ fn_pc = "run"
    /\ fn_in = << ColonTok, SkipTok, ColonTok, <<"b">> >>
    /\ PosnResult.files = << ColonTok, <<"b">> >>
    /\ PosnResult.skip = <<>>
    /\ PosnResult.mode = FileMode

\* C15: 'skip:' or 'only:' met while a sub-list is open opens the named
\* sub-list without a ':' in between and is stored nowhere; a token that is
\* no sentinel, met in skip or only mode, is appended to the end of that
\* list, so that several sections of one kind accumulate in order; the skip
\* and only lists never hold 'skip:', 'only:' or ':'.
C15_ImplicitClose ==
    fn_pc = "run" =>
        /\ \A i \in DOMAIN fn_in :
            LET before == fn_out[i]
                after == fn_out[i + 1]
            IN  /\ fn_in[i] \in funcs_keys =>
                    /\ after.mode = fn_in[i]
                    /\ after.files = before.files
                    /\ after.skip = before.skip
                    /\ after.only = before.only
                /\ (fn_in[i] \notin C13_Sentinels /\ before.mode = SkipTok) =>
                    /\ after.skip = Append(before.skip, fn_in[i])
                    /\ after.only = before.only
                    /\ after.mode = SkipTok
                /\ (fn_in[i] \notin C13_Sentinels /\ before.mode = OnlyTok) =>
                    /\ after.only = Append(before.only, fn_in[i])
                    /\ after.skip = before.skip
                    /\ after.mode = OnlyTok
        /\ Range(PosnResult.skip) \cap C13_Sentinels = {}
        /\ Range(PosnResult.only) \cap C13_Sentinels = {}

\* 'skip: a only: b' has been segregated: 'only:' closed the skip list
C15_Witness ==
    /\ fn_pc = "run"
    /\ fn_in = << SkipTok, <<"a">>, OnlyTok, <<"b">> >>
    /\ PosnResult.skip = << <<"a">> >>
    /\ PosnResult.only = << <<"b">> >>
    /\ PosnResult.files = <<>>

(***************************************************************************)
(* get_module_name alone                                                   *)
(***************************************************************************)
MaxPyf == 2         \* signature files handed to get_module_name

ModPyfNames == {F_m_pyf, F_u_pyf, F_n_pyf, F_e_pyf}

ModInputs ==
    [ module : {None, Some("x")},
      c : BOOLEAN,
      pyf_files : UNION { [1..n -> ModPyfNames] : n \in 0..MaxPyf } ]

ModInit ==
    /\ MainIdle
    /\ SegIdle
    /\ fn_in \in ModInputs
    /\ fn_out = None
    /\ fn_pc = "call"

ModCall ==
    /\ fn_pc = "call"
    /\ fn_out' = Some(get_module_name([DefaultArgs EXCEPT !.module = fn_in.module,
                                                          !.c = fn_in.c],
                                      fn_in.pyf_files))
    /\ fn_pc' = "ret"
    /\ UNCHANGED <<fn_in, mainvars, segvars>>

ModNext == ModCall

ModSpec == ModInit /\ [][ModNext]_vars

\* the lines of f that declare a module whose name has no '__user__'
C16_Declarations(f) ==
    { k \in DOMAIN FileText(f) : FileText(f)[k].pm /\ ~FileText(f)[k].user }

C16_Least(S) == CHOOSE i \in S : \A j \in S : i <= j

FcompNames == { <<"g", "n", "u">>,
                <<"g", "n", "u", "9", "5">>,
                <<"i", "n", "t", "e", "l">> }

\* list(fcompiler.fcompiler_class.keys()): the registered names in the
\* order of the dictionary, which the loading of the classes decides
FchoicesLists ==
    { s \in UNION { [1..n -> FcompNames] : n \in 1..Cardinality(FcompNames) } :
        \A i, j \in DOMAIN s : i # j => s[i] # s[j] }

\* check_npfcomp, lines 122-125: TRUE when opt is returned, FALSE when
\* RuntimeError is raised
check_npfcomp(opt, fchoices) == StrIn(opt, fchoices[1])

\* the values tried for --fcompiler
FcompOpts == FcompNames \cup { <<"n", "u">>, <<"p", "g">>, <<>> }

\* the values tried for --compiler
CcompOpts == cchoices \cup { "gnu", "uni", "" }

CompInputs ==
    [ fchoices : FchoicesLists, flag : {"--fcompiler"}, val : {""}, name : FcompOpts ]
    \cup
    [ fchoices : FchoicesLists, flag : {"--compiler"}, val : CcompOpts, name : {<<>>} ]

CompInit ==
    /\ MainIdle
    /\ SegIdle
    /\ fn_in \in CompInputs
    /\ fn_out = None
    /\ fn_pc = "call"

\* argparse converts the value of --fcompiler with type=check_npfcomp
CheckFcompiler ==
    /\ fn_pc = "call"
    /\ fn_in.flag = "--fcompiler"
    /\ fn_out' = Some(IF check_npfcomp(fn_in.name, fn_in.fchoices)
                      THEN "returned" ELSE "RuntimeError")
    /\ fn_pc' = "ret"
    /\ UNCHANGED <<fn_in, mainvars, segvars>>

\* argparse converts the value of --compiler with type=check_dccomp
CheckCompiler ==
    /\ fn_pc = "call"
    /\ fn_in.flag = "--compiler"
    /\ fn_out' = Some(IF check_dccomp(fn_in.val) THEN "returned" ELSE "RuntimeError")
    /\ fn_pc' = "ret"
    /\ UNCHANGED <<fn_in, mainvars, segvars>>

CompNext == CheckFcompiler \/ CheckCompiler

CompSpec == CompInit /\ [][CompNext]_vars

\* C17: the value of --fcompiler is accepted exactly when it is one of the
\* keys of fcompiler_class and is rejected with an error otherwise; the
\* value of --compiler is accepted exactly when it is one of bcpp, cygwin,
\* mingw32, msvc, unix.
C17_CompilerAllowLists ==
    fn_pc = "ret" =>
        IF fn_in.flag = "--fcompiler"
        THEN (fn_out = Some("returned")) <=>
                (\E i \in DOMAIN fn_in.fchoices : fn_in.fchoices[i] = fn_in.name)
        ELSE (fn_out = Some("returned")) <=>
                (fn_in.val \in {"bcpp", "cygwin", "mingw32", "msvc", "unix"})

(***************************************************************************)
(* Properties of process_args                                              *)
(***************************************************************************)
\* process_args has been entered and has made its help / version tests
C18_PastTests == pc \notin {"parse", "process"} /\ ~Happened("config_error")

\* C18: when --help or -v was given, process_args prints the help text
\* (the version for -v without --help) and ends the run there: nothing is
\* segregated or classified, no build directory is taken and no temporary
\* directory is made, no settings are handed over, nothing is generated or
\* compiled; with both flags the help text is what is printed.
C18_HelpVersionShortCircuit ==
    (C18_PastTests /\ (args.help \/ args.version)) =>
        /\ log = << IF args.help THEN "print_help" ELSE "outmess_version" >>
        /\ pc = "done"
        /\ outcome = "exit"
        /\ segd = NoSegd
        /\ build_dir = None
        /\ TmpDir \notin dirs
        /\ calls = NoCalls
        /\ files = files0

\* '--help -v -c' has ended after printing the help text
C18_Witness ==
    /\ pc = "done"
    /\ args.help /\ args.version /\ args.c
    /\ log = <<"print_help">>

\* the positions of event ev in the log
C19_At(ev) == { i \in DOMAIN log : log[i] = ev }

C19_TerminalEvents == {"generate_files", "compile_dist", "backend_compile"}

\* C19: a run that reaches signature generation, wrapper generation or
\* compilation has called wrapper_settings exactly once, after the build
\* directory was taken and the signature target was resolved and before the
\* first generation or compilation call; the call hands each bundle to its
\* own setter, in the order rules, crackfortran, capi_maps, auxfuncs.
C19_SettingsPropagatedOnce ==
    /\ Cardinality(C19_At("wrapper_settings")) <= 1
    /\ \A ev \in C19_TerminalEvents : \A i \in C19_At(ev) :
        /\ Cardinality(C19_At("wrapper_settings")) = 1
        /\ \A j \in C19_At("wrapper_settings") : j < i
    /\ Happened("wrapper_settings") =>
        /\ build_dir # None
        /\ pc \notin {"parse", "process", "segregate", "open", "modname", "sigfile",
                      "settings"}
        /\ \A i \in C19_At("mkdtemp") : \A j \in C19_At("wrapper_settings") : i < j
        /\ sign_file = IF args.hint_signature # None
                       THEN Some(Join(build_dir[1], args.hint_signature[1]))
                       ELSE None
        /\ Len(calls.settings) = 4
        /\ calls.settings[1].fn = "_set_rules"
        /\ calls.settings[1].arg.name = "rules_setts"
        /\ calls.settings[1].arg.module = module_name
        /\ calls.settings[1].arg.buildpath = build_dir[1]
        /\ calls.settings[2].fn = "_set_crackfortran"
        /\ calls.settings[2].arg.name = "crackfortran_setts"
        /\ calls.settings[2].arg.module = module_name
        /\ calls.settings[2].arg.skipfuncs = segd.skip
        /\ calls.settings[2].arg.onlyfuncs = segd.only
        /\ calls.settings[3].fn = "_set_capi_maps"
        /\ calls.settings[3].arg.name = "capi_maps_setts"
        /\ calls.settings[4].fn = "_set_auxfuncs"
        /\ calls.settings[4].arg.name = "auxfuncs_setts"
    /\ ~Happened("wrapper_settings") => calls.settings = <<>>

\* '-c --backend meson m.pyf' has ended after the backend compiled: the
\* settings were handed over once, with the module name found in m.pyf
C19_Witness ==
    /\ pc = "done"
    /\ Happened("backend_compile")
    /\ Len(calls.settings) = 4
    /\ calls.settings[1].arg.module = Some("m")
    /\ log[1] = "mkdtemp"

\* C20: when the run takes the wrapper-generation branch (always without
\* -c, and with -c when the backend is not distutils), generate_files is
\* called with the F77 files followed by the F90 files; the backend's
\* compile is called after it exactly when -c was given, there is no
\* signature target and generate_files returned a non-empty wrapper list,
\* and it gets the same source list, those wrappers and the build
\* directory; without -c nothing is compiled.
C20_GenerateThenCompile ==
    /\ (pc = "done" /\ Happened("wrapper_settings")
           /\ (~args.c \/ args.backend.value # "distutils")) =>
        Happened("generate_files")
    /\ Happened("generate_files") =>
        /\ calls.generate # None
        /\ calls.generate[1].files = segd.b.f77 \o segd.b.f90
        /\ calls.generate[1].module_name = module_name
        /\ calls.generate[1].sign_file = sign_file
    /\ (pc = "done" /\ Happened("generate_files")) =>
        (Happened("backend_compile") <=>
            /\ args.c
            /\ sign_file = None
            /\ c_wrapper # None
            /\ c_wrapper[1] # <<>>)
    /\ Happened("backend_compile") =>
        /\ \A i \in C19_At("generate_files") : \A j \in C19_At("backend_compile") : i < j
        /\ calls.backend # None
        /\ calls.backend[1].sources = segd.b.f77 \o segd.b.f90
        /\ calls.backend[1].sources = calls.generate[1].files
        /\ calls.backend[1].wrappers = c_wrapper[1]
        /\ calls.backend[1].build_dir = build_dir[1]
    /\ ~Happened("backend_compile") => calls.backend = None
    /\ ~args.c =>
        /\ ~Happened("backend_compile")
        /\ ~Happened("compile_dist")
        /\ calls.backend = None
        /\ calls.dist = None

\* '-c --backend meson a.f' has ended after generate_files returned one
\* wrapper and the backend compiled a.f with it in the temporary directory
C20_Witness ==
    /\ pc = "done"
    /\ args.c
    /\ Happened("backend_compile")
    /\ calls.generate # None
    /\ calls.generate[1].files = <<F_a_f>>
    /\ calls.backend # None
    /\ calls.backend[1].sources = <<F_a_f>>
    /\ calls.backend[1].wrappers = <<"module.c">>
    /\ calls.backend[1].build_dir = TmpDir

\* C21: in the distutils compile path a Fortran compiler option given on the
\* command line is forwarded: with --debug, get_fortran_compiler_flags
\* returns a list that holds '--debug', and the script arguments compile_dist
\* hands to setup hold 'config_fc' followed by that flag; with --f77flags
\* the list returned holds the '--f77flags=...' word likewise.
C21_FortranFlagsForwarded ==
    (pc = "done" /\ Happened("wrapper_settings") /\ args.c
        /\ args.backend = StrValue("distutils")
        /\ (args.debug \/ args.f77flags # None)) =>
        /\ calls.fc_flags # None
        /\ calls.fc_flags[1].raised = ""
        /\ calls.fc_flags[1].value # None
        /\ args.debug =>
            \E i \in DOMAIN calls.fc_flags[1].value[1] :
                calls.fc_flags[1].value[1][i].flag = "--debug"
        /\ args.f77flags # None =>
            \E i \in DOMAIN calls.fc_flags[1].value[1] :
                calls.fc_flags[1].value[1][i].flag = "--f77flags"
        /\ calls.dist # None
        /\ \E i \in DOMAIN calls.dist[1].script_args :
            /\ calls.dist[1].script_args[i].flag = "config_fc"
            /\ args.debug =>
                \E j \in DOMAIN calls.dist[1].script_args :
                    j > i /\ calls.dist[1].script_args[j].flag = "--debug"

(***************************************************************************)
(* get_f2pyflags_dist after segregate_posn_args, and back                  *)
(***************************************************************************)
\* lines 690-693 with the opening 'skip:' left out
FilterFlags_SkipUnmarked(skip_funcs, only_funcs) ==
    (IF skip_funcs # <<>> THEN skip_funcs \o <<ColonTok>> ELSE <<>>)
    \o (IF only_funcs # <<>> THEN <<OnlyTok>> \o only_funcs \o <<ColonTok>> ELSE <<>>)

\* get_f2pyflags_dist, lines 690-693: the words emitted for the two lists
FilterFlags(skip_funcs, only_funcs) ==
    (IF skip_funcs # <<>> THEN <<SkipTok>> \o skip_funcs \o <<ColonTok>> ELSE <<>>)
    \o (IF only_funcs # <<>> THEN <<OnlyTok>> \o only_funcs \o <<ColonTok>> ELSE <<>>)

\* f2pyarg.get_f2pyflags_dist, lines 672-698
get_f2pyflags_dist(a, skip_funcs, only_funcs) ==
    << IF a.wrap_functions THEN <<"-", "-", "w", "r", "a", "p", "-", "f", "u", "n", "c", "t", "i", "o", "n", "s">>
       ELSE <<"-", "-", "n", "o", "-", "w", "r", "a", "p", "-", "f", "u", "n", "c", "t", "i", "o", "n", "s">> >>
    \o << IF a.lower THEN <<"-", "-", "l", "o", "w", "e", "r">> ELSE <<"-", "-", "n", "o", "-", "l", "o", "w", "e", "r">> >>
    \o (IF a.debug_api # <<>> THEN << <<"-", "-", "d", "e", "b", "u", "g", "-", "c", "a", "p", "i">> >> ELSE <<>>)
    \o (IF a.quiet THEN << <<"-", "-", "q", "u", "i", "e", "t">> >> ELSE <<>>)
    \o << <<"-", "-", "s", "k", "i", "p", "-", "e", "m", "p", "t", "y", "-", "w", "r", "a", "p", "p", "e", "r", "s">> >>
    \o FilterFlags(skip_funcs, only_funcs)
    \o (IF a.include_paths # <<>>
        THEN << <<"-", "-", "i", "n", "c", "l", "u", "d", "e", "-", "p", "a", "t", "h", "s">> >> \o a.include_paths
        ELSE <<>>)
    \o (IF a.f2cmap # <<>> THEN << <<"-", "-", "f", "2", "c", "m", "a", "p">>, a.f2cmap >> ELSE <<>>)

\* the Namespaces tried: the defaults of the parser, with both values of the
\* two paired flags and of --quiet
RtNamespaces ==
    [ wrap_functions : BOOLEAN, lower : BOOLEAN, quiet : BOOLEAN,
      debug_api : {<<>>}, include_paths : {<<>>},
      f2cmap : { <<".", "f", "2", "p", "y", "_", "f", "2", "c", "m", "a", "p">> } ]

RtInit ==
    /\ MainIdle
    /\ SegIdle
    /\ fn_in \in [ a : RtNamespaces,
                   toks : UNION { [1..n -> PosnWords] : n \in 0..MaxToks } ]
    /\ fn_out = None
    /\ fn_pc = "call"

\* segregate_posn_args, get_f2pyflags_dist on its skip and only lists, and
\* segregate_posn_args again on the words emitted for the two lists
RtCall ==
    /\ fn_pc = "call"
    /\ LET first == segregate_posn_args(fn_in.toks)
           flags == get_f2pyflags_dist(fn_in.a, first.skip, first.only)
           emitted == FilterFlags(first.skip, first.only)
       IN  fn_out' = Some([first |-> first, flags |-> flags, emitted |-> emitted,
                           second |-> segregate_posn_args(emitted)])
    /\ fn_pc' = "ret"
    /\ UNCHANGED <<fn_in, mainvars, segvars>>

RtNext == RtCall

RtSpec == RtInit /\ [][RtNext]_vars

\* s holds part as a run of consecutive elements
C22_HasRun(s, part) ==
    \E i \in 0..(Len(s) - Len(part)) : SubSeq(s, i + 1, i + Len(part)) = part

\* C22: for the skip and only lists segregate_posn_args produces, the words
\* get_f2pyflags_dist emits for them are 'skip:', the skip list and ':'
\* followed by 'only:', the only list and ':', each group only for a
\* non-empty list, and segregate_posn_args turns these words back into the
\* same skip list and the same only list with no file.
C22_FilterRoundTrip ==
    fn_pc = "ret" =>
        LET r == fn_out[1]
            skipPart == IF r.first.skip # <<>>
                        THEN <<SkipTok>> \o r.first.skip \o <<ColonTok>> ELSE <<>>
            onlyPart == IF r.first.only # <<>>
                        THEN <<OnlyTok>> \o r.first.only \o <<ColonTok>> ELSE <<>>
        IN  /\ r.emitted = skipPart \o onlyPart
            /\ C22_HasRun(r.flags, r.emitted)
            /\ Len(r.flags) = Len(r.emitted) + 5 + (IF fn_in.a.quiet THEN 1 ELSE 0)
            /\ r.second.skip = r.first.skip
            /\ r.second.only = r.first.only
            /\ r.second.files = <<>>

\* 'skip: b only: a' went round: b is skipped and a is kept, before and
\* after
C22_Witness ==
    /\ fn_pc = "ret"
    /\ fn_in.toks = << SkipTok, <<"b">>, OnlyTok, <<"a">> >>
    /\ fn_out[1].emitted = << SkipTok, <<"b">>, ColonTok, OnlyTok, <<"a">>, ColonTok >>
    /\ fn_out[1].second.skip = << <<"b">> >>
    /\ fn_out[1].second.only = << <<"a">> >>
    /\ fn_out[1].second.files = <<>>

====
